---- MODULE Spec2Model ----
(***************************************************************************)
(* A model of src/src/lib.rs (crate inline-c, MSVC fork): the directive    *)
(* extractor, the flag resolver, the header symlink fixer, the run()       *)
(* pipeline and the Assert wrapper with its Drop.                          *)
(*                                                                         *)
(* A Rust String is a sequence of atoms.  An atom is a piece of text that  *)
(* none of the program's scans looks inside: the markers the regexes look  *)
(* for, single punctuation and whitespace characters, and words.           *)
(***************************************************************************)
EXTENDS Naturals, Integers, Sequences, FiniteSets, TLC

VARIABLES
    env,          \* the process environment: name (String) -> value (String)
    program,      \* the program text handed to run()
    variables,    \* the HashMap collect_environment_variables returns
    stripped,     \* the program text collect_environment_variables returns
    flags,        \* flag name -> Vec<String> returned by get_env_flags
    xpc,          \* position of the extractor / resolver harness
    fs,           \* the header files on disk: path (String) -> content (String)
    stack,        \* per thread: the frames of fixup_symlinks / fixup_symlinks_inner
    fixState,     \* per thread: "idle", "dirs", "prog", "ok", "err", "panic", "overflow"
    rd,           \* per thread: the header paths it has read
    wr,           \* per thread: the header paths it has written
    snap,         \* the header files as the first fixer run left them
    fixrun,       \* fixer runs started by the harness
    pc,           \* where run() stands
    host,         \* target_lexicon::HOST, and what cc finds installed
    language,     \* run()'s Language argument
    disk,         \* the paths of the temporary directory that exist
    temps,        \* the NamedTempFile values alive: deleted when dropped
    created,      \* every path this invocation has created
    outcome,      \* how run() ended: "ok", "err" or "panic", and why
    assertion,    \* the Assert run() returned
    call,         \* the last assert() / success() / failure() call
    ncalls,       \* calls made on the Assert
    dropState     \* "live", "dropped", or "panicked" inside Drop

xvars == <<env, program, variables, stripped, flags, xpc>>
fvars == <<fs, stack, fixState, rd, wr, snap, fixrun>>
rvars == <<pc, host, language, disk, temps, created, outcome, assertion,
           call, ncalls, dropState>>
vars == <<xvars, fvars, rvars>>

----------------------------------------------------------------------------
(* Bounds of the model *)

\* lines of program text fed to the directive extractor
MaxLines == 2
\* atoms in a flag value fed to the flag resolver
MaxFlagLen == 3
\* header files of the include directory the fixer is checked on
NHeaders == 3
\* frames a thread's stack holds before the recursion overflows it; an
\* acyclic traversal of n headers needs n + 2
StackLimit == 6
\* header files of the include directory run() is checked with
NRunHeaders == 1
\* calls of assert() / success() / failure() on one Assert
MaxCalls == 2
\* header files of the include directory two concurrent invocations share
NConcHeaders == 2

----------------------------------------------------------------------------
(* Text *)

\* "#inline_c_rs " : the literal head of the directive regex, line 186
MARK == "#inline_c_rs "
\* "#include " : the literal head of INCLUDE_REGEX up to its quote, line 58
INCW == "#include "
Q == "\""
NL == "\n"
CR == "\r"
SP == " "
TAB == "\t"
COLON == ":"
SLASH == "/"

\* what \s, str::trim and split_ascii_whitespace treat as whitespace
WS == {SP, TAB, NL, CR}

\* Option<T>
None == [some |-> FALSE]
Some(v) == [some |-> TRUE, val |-> v]

Min(S) == CHOOSE x \in S : \A y \in S : x <= y
Max(S) == CHOOSE x \in S : \A y \in S : x >= y

\* the least index >= i of atom a in t, 0 when there is none
IndexFrom(t, a, i) ==
    LET S == {j \in i..Len(t) : t[j] = a}
    IN IF S = {} THEN 0 ELSE Min(S)

\* the first index >= i of t that is not whitespace (Len(t)+1 when none)
SkipWS(t, i) ==
    LET S == {j \in i..Len(t) : t[j] \notin WS}
    IN IF S = {} THEN Len(t) + 1 ELSE Min(S)

\* str::trim
Trim(t) ==
    LET S == {j \in 1..Len(t) : t[j] \notin WS}
    IN IF S = {} THEN <<>> ELSE SubSeq(t, Min(S), Max(S))

\* str::starts_with for a one-atom pattern
StartsWith(t, a) == Len(t) >= 1 /\ t[1] = a

RECURSIVE Concat(_)
Concat(ss) == IF ss = <<>> THEN <<>> ELSE Head(ss) \o Concat(Tail(ss))

----------------------------------------------------------------------------
(* Directive Extractor: collect_environment_variables *)

ENV_VAR_PREFIX == "INLINE_C_RS_"

NoMatch == [ok |-> FALSE]

\* One attempt of REGEX at position i of t:
\*   #inline_c_rs (?P<variable_name>[^:]+):\s*"(?P<variable_value>[^"]+)"\r?\n
\* Every quantified class is followed by an atom outside the class, so the
\* match at a position is unique.
RegexAt(t, i) ==
    IF t[i] # MARK THEN NoMatch ELSE
    LET c == IndexFrom(t, COLON, i + 1) IN
    IF c = 0 \/ c = i + 1 THEN NoMatch ELSE
    LET q1 == SkipWS(t, c + 1) IN
    IF q1 > Len(t) \/ t[q1] # Q THEN NoMatch ELSE
    LET q2 == IndexFrom(t, Q, q1 + 1) IN
    IF q2 = 0 \/ q2 = q1 + 1 THEN NoMatch ELSE
    LET n == IF q2 + 1 <= Len(t) /\ t[q2 + 1] = CR THEN q2 + 2 ELSE q2 + 1 IN
    IF n <= Len(t) /\ t[n] = NL
    THEN [ok |-> TRUE, start |-> i, end |-> n,
          variable_name |-> SubSeq(t, i + 1, c - 1),
          variable_value |-> SubSeq(t, q1 + 1, q2 - 1)]
    ELSE NoMatch

\* REGEX.captures_iter(program): the leftmost non-overlapping matches in order
RECURSIVE CapturesFrom(_, _)
CapturesFrom(t, i) ==
    IF i > Len(t) THEN <<>>
    ELSE LET m == RegexAt(t, i) IN
         IF m.ok THEN <<m>> \o CapturesFrom(t, m.end + 1)
         ELSE CapturesFrom(t, i + 1)

captures_iter(t) == CapturesFrom(t, 1)

\* REGEX.replace_all(program, "")
RECURSIVE ReplaceFrom(_, _)
ReplaceFrom(t, i) ==
    IF i > Len(t) THEN <<>>
    ELSE LET m == RegexAt(t, i) IN
         IF m.ok THEN ReplaceFrom(t, m.end + 1)
         ELSE <<t[i]>> \o ReplaceFrom(t, i + 1)

replace_all(t) == ReplaceFrom(t, 1)

\* HashMap::insert
Insert(m, k, v) == (k :> v) @@ m

\* the first loop: every environment variable whose name starts with the
\* prefix, keyed by the name with the prefix split off
EnvVariables(e) ==
    LET names == {n \in DOMAIN e : StartsWith(n, ENV_VAR_PREFIX)}
    IN [k \in {Tail(n) : n \in names} |-> e[<<ENV_VAR_PREFIX>> \o k]]

\* the second loop: the captures inserted in order, names trimmed
RECURSIVE InsertCaptures(_, _)
InsertCaptures(m, caps) ==
    IF caps = <<>> THEN m
    ELSE InsertCaptures(
             Insert(m, Trim(Head(caps).variable_name), Head(caps).variable_value),
             Tail(caps))

\* a slip: the environment entries inserted after the directives
DirectivesThenEnv(p, e) ==
    [program |-> replace_all(p),
     variables |-> EnvVariables(e) @@ InsertCaptures(<<>>, captures_iter(p))]

collect_environment_variables(p, e) ==
    [program |-> replace_all(p),
     variables |-> InsertCaptures(EnvVariables(e), captures_iter(p))]

----------------------------------------------------------------------------
(* Flag Resolver: get_env_flags *)

\* str::split_ascii_whitespace, collected
RECURSIVE SplitFrom(_, _)
SplitFrom(t, i) ==
    LET s == SkipWS(t, i) IN
    IF s > Len(t) THEN <<>>
    ELSE LET W == {j \in s..Len(t) : t[j] \in WS}
             e == IF W = {} THEN Len(t) + 1 ELSE Min(W)
         IN <<SubSeq(t, s, e - 1)>> \o SplitFrom(t, e)

split_ascii_whitespace(t) == SplitFrom(t, 1)

\* env::var(name): Ok(value) or Err(NotPresent)
env_var(e, name) ==
    IF name \in DOMAIN e THEN [ok |-> TRUE, val |-> e[name]] ELSE [ok |-> FALSE]

\* Option::ok_or_else(f): Some(v) -> Ok(v), None -> Err(f())
ok_or_else(opt, err) ==
    IF opt.some THEN [ok |-> TRUE, val |-> opt.val] ELSE [ok |-> FALSE, err |-> err]

\* Result<String, _>::unwrap_or_default: Ok(v) -> v, Err(_) -> String::default()
unwrap_or_default(res) == IF res.ok THEN res.val ELSE <<>>

\* HashMap::get
Get(m, k) == IF k \in DOMAIN m THEN Some(m[k]) ELSE None

get_env_flags(vs, e, env_name) ==
    split_ascii_whitespace(
        unwrap_or_default(ok_or_else(Get(vs, env_name), env_var(e, env_name))))

----------------------------------------------------------------------------
(* Header Symlink Fixer: fixup_symlinks, fixup_symlinks_inner *)

Threads == {1, 2}

\* the "-I" that opens an include path token of CFLAGS
DASH_I == "-I"

\* str::replacen(a, "", 1): the first occurrence of atom a removed
replacen(s, a) ==
    LET i == IndexFrom(s, a, 1)
    IN IF i = 0 THEN s ELSE SubSeq(s, 1, i - 1) \o SubSeq(s, i + 1, Len(s))

\* Path::parent: the path without its last component
parent(path) ==
    LET S == {j \in 1..Len(path) : path[j] = SLASH}
    IN IF S = {} THEN <<>> ELSE SubSeq(path, 1, Max(S) - 1)

\* Path::join for a relative s
join(dir, s) == IF dir = <<>> THEN s ELSE dir \o <<SLASH>> \o s

\* One attempt of INCLUDE_REGEX, #include "(.*)", at position i of t: the
\* greedy .* stops at the last quote of the line
IncludeAt(t, i) ==
    IF ~(t[i] = INCW /\ i + 1 <= Len(t) /\ t[i + 1] = Q) THEN NoMatch ELSE
    LET nl == IndexFrom(t, NL, i + 2)
        lineEnd == IF nl = 0 THEN Len(t) + 1 ELSE nl
        S == {j \in (i + 2)..(lineEnd - 1) : t[j] = Q}
    IN IF S = {} THEN NoMatch
       ELSE [ok |-> TRUE, end |-> Max(S), cap |-> SubSeq(t, i + 2, Max(S) - 1)]

\* regex.captures_iter(text).map(|c| c[1].to_string()).collect()
RECURSIVE IncludesFrom(_, _)
IncludesFrom(t, i) ==
    IF i > Len(t) THEN <<>>
    ELSE LET m == IncludeAt(t, i) IN
         IF m.ok THEN <<m.cap>> \o IncludesFrom(t, m.end + 1)
         ELSE IncludesFrom(t, i + 1)

filepaths(t) == IncludesFrom(t, 1)

\* lines 291-297: every capture joined to the directory
joined_filepaths(dir, caps) == [k \in 1..Len(caps) |-> join(dir, caps[k])]

\* lines 123-127: the CFLAGS tokens that start with "-I"
include_paths(cflags) == SelectSeq(cflags, LAMBDA s : StartsWith(s, DASH_I))

\* the header file names of the model, and String::ends_with("h") on its atoms
HeaderAtoms == <<"a.h", "b.h", "c.h", "d.h", "e.h">>
EndsWithH(path) ==
    path # <<>> /\ \E i \in DOMAIN HeaderAtoms : path[Len(path)] = HeaderAtoms[i]

\* the directories that exist, and read_dir's entries of one
Dirs == {<<"inc">>}
Entries(dir) == {q \in DOMAIN fs : parent(q) = dir}

Perms(S) ==
    {q \in [1..Cardinality(S) -> S] : \A i, j \in 1..Cardinality(S) : q[i] = q[j] => i = j}

\* a frame of fixup_symlinks: the loop over the include paths
DirsFrame(paths) == [kind |-> "dirs", items |-> paths, i |-> 1,
                     step |-> "read_dir", file |-> <<>>, symlink |-> <<>>]
\* a frame of fixup_symlinks_inner: the loop over the header paths
InnerFrame(paths) == [kind |-> "inner", items |-> paths, i |-> 1,
                      step |-> "read", file |-> <<>>, symlink |-> <<>>]

Top(t) == stack[t][Len(stack[t])]
SetTop(t, f) == [stack EXCEPT ![t] = [@ EXCEPT ![Len(@)] = f]]
Running(t) == fixState[t] \in {"dirs", "prog"} /\ stack[t] # <<>>
InLoop(t) == Running(t) /\ Top(t).i <= Len(Top(t).items)
Path(t) == Top(t).items[Top(t).i]

\* a call of fixup_symlinks_inner with one more frame than the stack holds
Call(t, st, paths) ==
    IF Len(st) >= StackLimit
    THEN /\ stack' = [stack EXCEPT ![t] = st]
         /\ fixState' = [fixState EXCEPT ![t] = "overflow"]
    ELSE /\ stack' = [stack EXCEPT ![t] = Append(st, InnerFrame(paths))]
         /\ UNCHANGED fixState

\* a `?` that returns the error through every frame to run()
Fail(t) ==
    /\ stack' = [stack EXCEPT ![t] = <<>>]
    /\ fixState' = [fixState EXCEPT ![t] = "err"]

\* line 128: run() calls fixup_symlinks(include_paths)
fixup_symlinks(t) ==
    /\ fixState' = [fixState EXCEPT ![t] = "dirs"]
    /\ stack' = [stack EXCEPT
                   ![t] = <<DirsFrame(include_paths(flags[<<"CFLAGS">>]))>>]
    /\ UNCHANGED <<fs, rd, wr>>

\* what no step of the fixer touches
FixFrame == UNCHANGED <<snap, fixrun, xvars, rvars>>

\* lines 252-262: one include path: read_dir, the entries that end in "h" in
\* the order the directory yields them, and the call of fixup_symlinks_inner
ReadDir(t) ==
    /\ FixFrame
    /\ InLoop(t) /\ Top(t).kind = "dirs"
    /\ LET dir == replacen(Path(t), DASH_I)
           st == SetTop(t, [Top(t) EXCEPT !.i = @ + 1])[t]
       IN IF dir \notin Dirs
          THEN Fail(t)
          ELSE \E order \in Perms(Entries(dir)) :
                  Call(t, st, SelectSeq(order, EndsWithH))
    /\ UNCHANGED <<fs, rd, wr>>

\* line 275: let file = std::fs::read_to_string(&path)?
ReadHeader(t) ==
    /\ FixFrame
    /\ InLoop(t) /\ Top(t).kind = "inner" /\ Top(t).step = "read"
    /\ IF Path(t) \in DOMAIN fs
       THEN /\ stack' = SetTop(t, [Top(t) EXCEPT !.file = fs[Path(t)],
                                                 !.step = "probe"])
            /\ rd' = [rd EXCEPT ![t] = @ \cup {Path(t)}]
            /\ UNCHANGED fixState
       ELSE Fail(t) /\ UNCHANGED rd
    /\ UNCHANGED <<fs, wr>>

\* line 280: if let Ok(symlink) = read_to_string(parent.join(&file))
Probe(t) ==
    /\ FixFrame
    /\ InLoop(t) /\ Top(t).kind = "inner" /\ Top(t).step = "probe"
    /\ LET target == join(parent(Path(t)), Top(t).file)
       IN IF target \in DOMAIN fs
          THEN /\ stack' = SetTop(t, [Top(t) EXCEPT !.symlink = fs[target],
                                                    !.step = "truncate"])
               /\ rd' = [rd EXCEPT ![t] = @ \cup {target}]
          ELSE /\ stack' = SetTop(t, [Top(t) EXCEPT !.step = "recurse"])
               /\ UNCHANGED rd
    /\ UNCHANGED <<fs, wr, fixState>>

\* line 282, first half: std::fs::write opens the file, truncating it
Truncate(t) ==
    /\ FixFrame
    /\ InLoop(t) /\ Top(t).kind = "inner" /\ Top(t).step = "truncate"
    /\ fs' = (Path(t) :> <<>>) @@ fs
    /\ wr' = [wr EXCEPT ![t] = @ \cup {Path(t)}]
    /\ stack' = SetTop(t, [Top(t) EXCEPT !.step = "write"])
    /\ UNCHANGED <<rd, fixState>>

\* line 282, second half: std::fs::write writes the content
WriteHeader(t) ==
    /\ FixFrame
    /\ InLoop(t) /\ Top(t).kind = "inner" /\ Top(t).step = "write"
    /\ fs' = (Path(t) :> Top(t).symlink) @@ fs
    /\ stack' = SetTop(t, [Top(t) EXCEPT !.step = "recurse"])
    /\ UNCHANGED <<rd, wr, fixState>>

\* lines 286-298: the includes of the content read at line 275, joined to the
\* header's directory, and the recursive call
Recurse(t) ==
    /\ FixFrame
    /\ InLoop(t) /\ Top(t).kind = "inner" /\ Top(t).step = "recurse"
    /\ LET st == SetTop(t, [Top(t) EXCEPT !.i = @ + 1, !.step = "read",
                                          !.file = <<>>, !.symlink = <<>>])[t]
       IN Call(t, st, joined_filepaths(parent(Path(t)), filepaths(Top(t).file)))
    /\ UNCHANGED <<fs, rd, wr>>

\* lines 130-145 once fixup_symlinks has returned Ok: the includes of the
\* program text joined to the first include path
ProgramIncludes(t) ==
    LET caps == filepaths(stripped)
        ips == include_paths(flags[<<"CFLAGS">>])
    IN IF caps # <<>> /\ ips = <<>>
       THEN \* include_paths.first().unwrap() on an empty Vec
            /\ fixState' = [fixState EXCEPT ![t] = "panic"]
            /\ stack' = [stack EXCEPT ![t] = <<>>]
       ELSE /\ fixState' = [fixState EXCEPT ![t] = "prog"]
            /\ stack' = [stack EXCEPT ![t] =
                 <<InnerFrame(IF caps = <<>> THEN <<>>
                              ELSE joined_filepaths(replacen(ips[1], DASH_I), caps))>>]

\* the end of a loop: Ok(()) to the caller
Return(t) ==
    /\ FixFrame
    /\ Running(t) /\ Top(t).i > Len(Top(t).items)
    /\ IF Len(stack[t]) > 1
       THEN /\ stack' = [stack EXCEPT ![t] = SubSeq(@, 1, Len(@) - 1)]
            /\ UNCHANGED fixState
       ELSE IF fixState[t] = "dirs"
       THEN ProgramIncludes(t)
       ELSE /\ stack' = [stack EXCEPT ![t] = <<>>]
            /\ fixState' = [fixState EXCEPT ![t] = "ok"]
    /\ UNCHANGED <<fs, rd, wr>>

FixerIdle ==
    /\ stack = [t \in Threads |-> <<>>]
    /\ fixState = [t \in Threads |-> "idle"]
    /\ rd = [t \in Threads |-> {}]
    /\ wr = [t \in Threads |-> {}]
    /\ snap = <<>>
    /\ fixrun = 0

----------------------------------------------------------------------------
(* Toolchain Invoker: run() *)

DOT == "."
CFLAGS == <<"CFLAGS">>
LDFLAGS == <<"LDFLAGS">>

\* Language::to_string, lines 66-73
to_string(lang) == IF lang = "C" THEN "c" ELSE "cpp"

\* the names tempfile draws: unique among the files that exist
input_path == <<"inline-c-rs-", "rand1", DOT, to_string(language)>>
output_path == <<"inline-c-rs-", "rand2", DOT, "exe">>

\* PathBuf::set_extension
set_extension(path, ext) ==
    LET S == {j \in 1..Len(path) : path[j] = DOT}
    IN IF S = {} THEN path \o <<DOT, ext>> ELSE SubSeq(path, 1, Max(S)) \o <<ext>>

\* str::contains for a one-atom pattern
contains(t, a) == \E j \in 1..Len(t) : t[j] = a

\* str::replace(a, ""): every occurrence of atom a removed
replace(t, a) == SelectSeq(t, LAMBDA x : x # a)

\* the function f without the keys in D
Without(f, D) == [k \in DOMAIN f \ D |-> f[k]]

Ended(kind, why) == [kind |-> kind, why |-> why]

\* line 77
RunCollect ==
    /\ pc = "start"
    /\ LET r == collect_environment_variables(program, env)
       IN /\ variables' = r.variables
          /\ stripped' = r.program
    /\ pc' = "tempfile"
    /\ UNCHANGED <<env, program, flags, xpc, fvars, host, language, disk, temps,
                   created, outcome, assertion, call, ncalls, dropState>>

\* lines 79-82: the NamedTempFile of the program
CreateProgramFile ==
    /\ pc = "tempfile"
    /\ disk' = (input_path :> <<>>) @@ disk
    /\ temps' = temps \cup {input_path}
    /\ created' = created \cup {input_path}
    /\ pc' = "write"
    /\ UNCHANGED <<xvars, fvars, host, language, outcome, assertion, call,
                   ncalls, dropState>>

\* line 84: program_file.write_all(program.as_bytes())?
WriteProgram ==
    /\ pc = "write"
    /\ disk' = (input_path :> stripped) @@ disk
    /\ pc' = "host"
    /\ UNCHANGED <<xvars, fvars, host, language, temps, created, outcome,
                   assertion, call, ncalls, dropState>>

\* the `?` of lines 82, 84, 94 and 99 on an I/O error: run() returns Err and
\* the NamedTempFile values alive are dropped, which deletes their files
IoError ==
    /\ pc \in {"tempfile", "write", "keep", "output"}
    /\ disk' = Without(disk, temps)
    /\ temps' = {}
    /\ outcome' = Ended("err", "io")
    /\ pc' = "done"
    /\ UNCHANGED <<xvars, fvars, host, language, created, assertion, call,
                   ncalls, dropState>>

\* lines 86-92: the panic of a host that is not MSVC
HostCheck ==
    /\ pc = "host"
    /\ pc' = IF contains(host.target, "msvc") THEN "keep" ELSE "abort"
    /\ UNCHANGED <<xvars, fvars, host, language, disk, temps, created, outcome,
                   assertion, call, ncalls, dropState>>

\* the panic of line 91 unwinding out of run(): program_file is dropped
Unwind ==
    /\ pc = "abort"
    /\ disk' = Without(disk, temps)
    /\ temps' = {}
    /\ outcome' = Ended("panic", "This crate only works with MSVC and Wasmer on Windows!")
    /\ pc' = "done"
    /\ UNCHANGED <<xvars, fvars, host, language, created, assertion, call,
                   ncalls, dropState>>

\* line 94: program_file.keep()
KeepInput ==
    /\ pc = "keep"
    /\ temps' = temps \ {input_path}
    /\ pc' = "output"
    /\ UNCHANGED <<xvars, fvars, host, language, disk, created, outcome,
                   assertion, call, ncalls, dropState>>

\* lines 95-99: the output file, created and kept
CreateOutput ==
    /\ pc = "output"
    /\ disk' = (output_path :> <<>>) @@ disk
    /\ created' = created \cup {output_path}
    /\ pc' = "compiler"
    /\ UNCHANGED <<xvars, fvars, host, language, temps, outcome, assertion,
                   call, ncalls, dropState>>

\* lines 101-117: build.try_get_compiler()?
GetCompiler ==
    /\ pc = "compiler"
    /\ IF host.toolchain
       THEN pc' = "cflags" /\ UNCHANGED outcome
       ELSE pc' = "done" /\ outcome' = Ended("err", "toolchain")
    /\ UNCHANGED <<xvars, fvars, host, language, disk, temps, created,
                   assertion, call, ncalls, dropState>>

\* line 119
RunCflags ==
    /\ pc = "cflags"
    /\ flags' = (CFLAGS :> get_env_flags(variables, env, CFLAGS))
    /\ pc' = "fixup"
    /\ UNCHANGED <<env, program, variables, stripped, xpc, fvars, host, language,
                   disk, temps, created, outcome, assertion, call, ncalls,
                   dropState>>

\* lines 122-128: fixup_symlinks(include_paths); its steps and those of line
\* 145 are the fixer's
RunFixup ==
    /\ pc = "fixup"
    /\ fixup_symlinks(1)
    /\ pc' = "fixing"
    /\ UNCHANGED <<xvars, snap, fixrun, host, language, disk, temps, created,
                   outcome, assertion, call, ncalls, dropState>>

\* the `?` of lines 128 and 145, the unwrap of line 140, and a stack the
\* recursion has outgrown
FixFailed ==
    /\ pc = "fixing"
    /\ fixState[1] \in {"err", "panic", "overflow"}
    /\ outcome' = CASE fixState[1] = "err" -> Ended("err", "header")
                    [] fixState[1] = "panic" -> Ended("panic", "unwrap on None")
                    [] OTHER -> Ended("panic", "stack overflow")
    /\ pc' = "done"
    /\ UNCHANGED <<xvars, fvars, host, language, disk, temps, created,
                   assertion, call, ncalls, dropState>>

\* lines 147-149
RunFlags ==
    /\ pc = "fixing"
    /\ fixState[1] = "ok"
    /\ flags' = [n \in {<<"CPPFLAGS">>, <<"CXXFLAGS">>, LDFLAGS} |->
                    get_env_flags(variables, env, n)] @@ flags
    /\ pc' = "link"
    /\ UNCHANGED <<env, program, variables, stripped, xpc, fvars, host, language,
                   disk, temps, created, outcome, assertion, call, ncalls,
                   dropState>>

\* lines 216-236: command_add_output_file
command_add_output_file(args, out, msvc, clang) ==
    IF msvc /\ ~clang
    THEN args \o << <<"-Fo">> \o set_extension(out, "obj"), <<"-Fe">> \o out >>
    ELSE args \o << <<"-o">>, out >>

\* lines 158-160: the import library of a .dll
dll_path(token) ==
    IF token # <<>> /\ token[Len(token)] = ".dll" THEN token \o <<".lib">> ELSE token

\* lines 151-167: the compiler's command line and environment
compiler_command(cflags, ldflags, vs) ==
    [program |-> IF host.clang THEN <<"clang-cl.exe">> ELSE <<"cl.exe">>,
     args |-> command_add_output_file(cflags, output_path,
                  contains(host.target, "msvc"), host.clang)
              \o << input_path, <<"/link">>, dll_path(ldflags[2]),
                    <<"/LIBPATH:">> \o replace(ldflags[1], "-rpath,") >>,
     envs |-> vs]

\* the vector with the first n of the three artifact paths
FirstArtifacts(n) ==
    SubSeq(<<input_path, output_path, set_extension(output_path, "obj")>>, 1, n)

\* a slip: the intermediate object file left out of the list
files_without_obj == FirstArtifacts(2)

\* lines 169-174
files_to_remove == FirstArtifacts(3)

\* lines 12-17 and 176: Assert::new(command, Some(files_to_remove))
Assert_new(command, files) == [command |-> command, files_to_remove |-> Some(files)]

\* lines 151-176: the two expects on LDFLAGS, the command, Ok(Assert)
Link ==
    /\ pc = "link"
    /\ LET ldflags == flags[LDFLAGS] IN
       IF Len(ldflags) < 1
       THEN /\ outcome' = Ended("panic", "no link path for .dll")
            /\ pc' = "done"
            /\ UNCHANGED assertion
       ELSE IF Len(ldflags) < 2
       THEN /\ outcome' = Ended("panic", "no .dll")
            /\ pc' = "done"
            /\ UNCHANGED assertion
       ELSE /\ outcome' = Ended("ok", "")
            /\ pc' = "returned"
            /\ assertion' = Assert_new(
                   compiler_command(flags[CFLAGS], ldflags, variables),
                   files_to_remove)
    /\ UNCHANGED <<xvars, fvars, host, language, disk, temps, created, call,
                   ncalls, dropState>>

----------------------------------------------------------------------------
(* Assertion Wrapper: Assert *)

\* what the snippets of the model do once built
Ret0 == "int main(){return 0;}"
Ret1 == "int main(){return 1;}"
Broken == "int main({"

Compiles(text) == ~contains(text, Broken)
ExitCode(text) == IF contains(text, Ret1) THEN 1 ELSE 0

\* the argument of args that starts with atom a, without it; <<>> if none
ArgAfter(args, a) ==
    LET S == {j \in 1..Len(args) : StartsWith(args[j], a) /\ Len(args[j]) > 1}
    IN IF S = {} THEN <<>> ELSE Tail(args[Min(S)])

\* the argument that follows the argument <<a>>; <<>> if none
ArgNext(args, a) ==
    LET S == {j \in 1..(Len(args) - 1) : args[j] = <<a>>}
    IN IF S = {} THEN <<>> ELSE args[Min(S) + 1]

\* the argument before "/link": the source file
SourceArg(args) ==
    LET S == {j \in 2..Len(args) : args[j] = <<"/link">>}
    IN IF S = {} THEN <<>> ELSE args[Min(S) - 1]

\* an executable the compiler has written, and the status it exits with
Executable(code) == <<"MZ", code>>

\* The child process a command starts, on the disk d: its exit status and
\* the disk it leaves.  The compiler writes the object file and the
\* executable its arguments name when the source compiles.  Any other
\* program is run from its file.
Spawn(command, d) ==
    IF command.program \in {<<"cl.exe">>, <<"clang-cl.exe">>}
    THEN LET src == SourceArg(command.args)
             obj == ArgAfter(command.args, "-Fo")
             exe == IF ArgAfter(command.args, "-Fe") # <<>>
                    THEN ArgAfter(command.args, "-Fe")
                    ELSE ArgNext(command.args, "-o")
         IN IF src \in DOMAIN d /\ Compiles(d[src])
            THEN [child |-> "compiler", status |-> 0,
                  disk |-> (exe :> Executable(ExitCode(d[src])))
                           @@ (IF obj = <<>> THEN d ELSE (obj :> <<"obj">>) @@ d)]
            ELSE [child |-> "compiler", status |-> 2, disk |-> d]
    ELSE IF command.program \in DOMAIN d /\ Len(d[command.program]) = 2
    THEN [child |-> "program", status |-> d[command.program][2], disk |-> d]
    ELSE [child |-> "none", status |-> -1, disk |-> d]

NoCall == [op |-> "none", child |-> "none", status |-> 0, panicked |-> FALSE]

CanCall ==
    /\ pc = "returned"
    /\ dropState = "live"
    /\ ~call.panicked
    /\ ncalls < MaxCalls

\* Assert::success and Assert::failure of assert_cmd: the panic on a status
\* that is not the expected one
Panics(op, status) ==
    \/ op = "success" /\ status # 0
    \/ op = "failure" /\ status = 0

\* self.command.assert(): the command runs to completion
Ran(op) ==
    LET r == Spawn(assertion.command, disk)
    IN /\ disk' = r.disk
       /\ created' = created \cup (DOMAIN r.disk \ DOMAIN disk)
       /\ call' = [op |-> op, child |-> r.child, status |-> r.status,
                   panicked |-> r.child = "none" \/ Panics(op, r.status)]
       /\ ncalls' = ncalls + 1
       /\ UNCHANGED <<xvars, fvars, pc, host, language, temps, outcome,
                      assertion, dropState>>

\* lines 19-21
assert_ == CanCall /\ Ran("assert")

\* lines 24-26: self.assert().success()
success == CanCall /\ Ran("success")

\* lines 29-31: self.assert().failure()
failure == CanCall /\ Ran("failure")

\* the paths of files[1..n] removed from d
RECURSIVE RemoveFiles(_, _, _)
RemoveFiles(d, files, n) ==
    IF n = 0 THEN d ELSE Without(RemoveFiles(d, files, n - 1), {files[n]})

CanDrop == pc = "returned" /\ dropState = "live"

\* lines 34-45, every remove_file returning Ok
Drop ==
    /\ CanDrop
    /\ IF assertion.files_to_remove.some
       THEN LET files == assertion.files_to_remove.val
            IN disk' = RemoveFiles(disk, files, Len(files))
       ELSE UNCHANGED disk
    /\ dropState' = "dropped"
    /\ UNCHANGED <<xvars, fvars, pc, host, language, temps, created, outcome,
                   assertion, call, ncalls>>

\* lines 34-45, remove_file failing on the k-th file, which exists: the panic
\* of line 40 leaves it and the files after it
DropPanics ==
    /\ CanDrop
    /\ assertion.files_to_remove.some
    /\ LET files == assertion.files_to_remove.val
       IN \E k \in 1..Len(files) :
            /\ files[k] \in DOMAIN RemoveFiles(disk, files, k - 1)
            /\ disk' = RemoveFiles(disk, files, k - 1)
    /\ dropState' = "panicked"
    /\ UNCHANGED <<xvars, fvars, pc, host, language, temps, created, outcome,
                   assertion, call, ncalls>>

\* the state of run() and Assert where no invocation is modelled
RunUnused ==
    /\ pc = "none"
    /\ host = [target |-> <<>>, toolchain |-> FALSE, clang |-> FALSE]
    /\ language = "C"
    /\ disk = <<>>
    /\ temps = {}
    /\ created = {}
    /\ outcome = Ended("none", "")
    /\ assertion = <<>>
    /\ call = NoCall
    /\ ncalls = 0
    /\ dropState = "live"

----------------------------------------------------------------------------
(* The extractor on bounded program texts and environments *)

\* configuration names used in the extractor's inputs
NameA == "A"
NameB == "B"

\* a directive line: the name padded or not, the value, "\r\n" or "\n"
DirectiveLine(name, pad, value, cr) ==
    <<MARK>> \o pad \o <<name>> \o pad \o <<COLON>> \o pad
        \o <<Q>> \o value \o <<Q>> \o cr \o <<NL>>

ExtractLines ==
    {DirectiveLine(n, pad, v, cr) :
        n \in {NameA, NameB}, pad \in {<<>>, <<SP>>},
        v \in {<<"v">>, <<"w">>}, cr \in {<<>>, <<CR>>}}
    \cup {<<"int x;", NL>>,                           \* code
          <<MARK, NameA, COLON, SP, Q, Q, NL>>,        \* empty value: no match
          <<MARK, NameA, NL>>,                         \* no colon on the line
          <<MARK, NameB, COLON, SP, Q, "v", Q>>}       \* no line end

RECURSIVE SeqsUpTo(_, _)
SeqsUpTo(S, n) ==
    IF n = 0 THEN {<<>>}
    ELSE LET R == SeqsUpTo(S, n - 1)
         IN R \cup {<<x>> \o r : x \in S, r \in {q \in R : Len(q) = n - 1}}

ExtractPrograms == {Concat(ls) : ls \in SeqsUpTo(ExtractLines, MaxLines)}

\* environments: INLINE_C_RS_A, INLINE_C_RS_B and a bare A, each set or not
ExtractEnvNames == {<<ENV_VAR_PREFIX, NameA>>, <<ENV_VAR_PREFIX, NameB>>, <<NameA>>}
ExtractEnvs ==
    UNION {[D -> {<<"e">>, <<"v">>}] : D \in SUBSET ExtractEnvNames}

InitExtract ==
    /\ program \in ExtractPrograms
    /\ env \in ExtractEnvs
    /\ variables = <<>>
    /\ stripped = <<>>
    /\ flags = <<>>
    /\ xpc = "start"
    /\ fs = <<>>
    /\ FixerIdle
    /\ RunUnused

\* line 77: let (program, variables) = collect_environment_variables(program)
Collect ==
    /\ xpc = "start"
    /\ LET r == collect_environment_variables(program, env)
       IN /\ variables' = r.variables
          /\ stripped' = r.program
    /\ xpc' = "collected"
    /\ UNCHANGED <<env, program, flags, fvars, rvars>>

NextExtract == Collect
SpecExtract == InitExtract /\ [][NextExtract]_vars

----------------------------------------------------------------------------
(* The resolver on bounded configuration maps and environments *)

FlagNames == {<<"CFLAGS">>, <<"CPPFLAGS">>, <<"CXXFLAGS">>, <<"LDFLAGS">>}

FlagValues == SeqsUpTo({SP, TAB, "-a", "-b"}, MaxFlagLen)

\* maps holding at most one of the names
FlagMaps ==
    {<<>>} \cup {(n :> v) : n \in {<<"CFLAGS">>, <<"LDFLAGS">>}, v \in FlagValues}

InitFlags ==
    /\ program = <<>>
    /\ stripped = <<>>
    /\ variables \in FlagMaps
    /\ env \in FlagMaps
    /\ flags = <<>>
    /\ xpc = "collected"
    /\ fs = <<>>
    /\ FixerIdle
    /\ RunUnused

\* lines 119, 147-149: the four get_env_flags calls of run()
Resolve ==
    /\ xpc = "collected"
    /\ flags' = [n \in FlagNames |-> get_env_flags(variables, env, n)]
    /\ xpc' = "resolved"
    /\ UNCHANGED <<env, program, variables, stripped, fvars, rvars>>

NextFlags == Resolve
SpecFlags == InitFlags /\ [][NextFlags]_vars

----------------------------------------------------------------------------
(* The fixer on bounded header trees, run twice from the same roots *)

INC == <<"inc">>
HeaderPath(n) == join(INC, <<n>>)
Headers(n) == {HeaderAtoms[i] : i \in 1..n}

\* a stand-in for a symbolic link: the content is the name of a sibling
StandIn(n) == <<n>>
\* a header that includes a sibling
Including(n) == <<INCW, Q, n, Q, NL>>
Plain == <<"int x;", NL>>

HeaderTexts(names) ==
    {StandIn(n) : n \in names} \cup {Including(n) : n \in names} \cup {Plain}

\* every tree of headers of the include directory: each present or not
Trees(names) ==
    UNION {[{HeaderPath(n) : n \in D} -> HeaderTexts(names)] : D \in SUBSET names}

\* the configuration of a snippet built against the include directory
IncConfig == (<<"CFLAGS">> :> <<DASH_I, "inc">>)

InitFix ==
    /\ fs \in Trees(Headers(NHeaders))
    /\ program \in {Plain, Including("a.h") \o Plain}
    /\ stripped = program
    /\ env = <<>>
    /\ variables \in {IncConfig, <<>>}
    /\ flags = [n \in FlagNames |-> get_env_flags(variables, env, n)]
    /\ xpc = "resolved"
    /\ FixerIdle
    /\ RunUnused

\* the first run of the fixer, as run() starts it
FirstRun ==
    /\ fixrun = 0
    /\ fixup_symlinks(1)
    /\ fixrun' = 1
    /\ UNCHANGED <<snap, xvars, rvars>>

\* the second run, once the first has returned Ok
SecondRun ==
    /\ fixrun = 1 /\ fixState[1] = "ok"
    /\ snap' = fs
    /\ fixup_symlinks(1)
    /\ fixrun' = 2
    /\ UNCHANGED <<xvars, rvars>>

NextFix ==
    \/ FirstRun
    \/ SecondRun
    \/ ReadDir(1)
    \/ ReadHeader(1)
    \/ Probe(1)
    \/ Truncate(1)
    \/ WriteHeader(1)
    \/ Recurse(1)
    \/ Return(1)
SpecFix == InitFix /\ [][NextFix]_vars

\* C7: the contents of all header files after the fixer has run a second
\* time from the same roots equal their contents after its first run.
C7_FixerIdempotent ==
    (fixrun = 2 /\ fixState[1] = "ok") => fs = snap

\* C9: the header traversal run() starts finishes for every finite header
\* tree, headers that include each other or themselves too.  A traversal
\* that does not finish is one whose recursion outgrows every stack.
C9_TraversalTerminates ==
    \A t \in Threads : fixState[t] # "overflow"

----------------------------------------------------------------------------
(* run() and the Assert it returns, on bounded snippets and hosts *)

\* the lines a snippet is put together from
CflagsLine == DirectiveLine("CFLAGS", <<>>, <<DASH_I, "inc">>, <<>>)
LdflagsLines ==
    {DirectiveLine("LDFLAGS", <<SP>>, v, <<>>) :
        v \in {<<"-rpath,", "lib">>, <<"-rpath,", "lib", SP, "wasmer", ".dll">>}}

RunPrograms ==
    {c \o l \o i \o <<b, NL>> :
        c \in {<<>>, CflagsLine}, l \in {<<>>} \cup LdflagsLines,
        i \in {<<>>, Including("a.h")}, b \in {Ret0, Ret1, Broken}}

RunEnvs ==
    {<<>>,
     (LDFLAGS :> <<"-rpath,", "lib", SP, "wasmer", ".dll">>),
     (<<ENV_VAR_PREFIX, "LDFLAGS">> :> <<"-rpath,", "lib", SP, "wasmer", ".dll">>)}

Hosts ==
    [target : {<<"x86_64", "-", "pc", "-", "windows", "-", "msvc">>,
               <<"x86_64", "-", "unknown", "-", "linux", "-", "gnu">>},
     toolchain : BOOLEAN, clang : BOOLEAN]

InitRun ==
    /\ program \in RunPrograms
    /\ env \in RunEnvs
    /\ host \in Hosts
    /\ language \in {"C", "Cxx"}
    /\ fs \in Trees(Headers(NRunHeaders))
    /\ variables = <<>>
    /\ stripped = <<>>
    /\ flags = <<>>
    /\ xpc = "start"
    /\ FixerIdle
    /\ pc = "start"
    /\ disk = <<>>
    /\ temps = {}
    /\ created = {}
    /\ outcome = Ended("none", "")
    /\ assertion = <<>>
    /\ call = NoCall
    /\ ncalls = 0
    /\ dropState = "live"

NextRun ==
    \/ RunCollect
    \/ CreateProgramFile
    \/ WriteProgram
    \/ IoError
    \/ HostCheck
    \/ Unwind
    \/ KeepInput
    \/ CreateOutput
    \/ GetCompiler
    \/ RunCflags
    \/ RunFixup
    \/ ReadDir(1)
    \/ ReadHeader(1)
    \/ Probe(1)
    \/ Truncate(1)
    \/ WriteHeader(1)
    \/ Recurse(1)
    \/ Return(1)
    \/ FixFailed
    \/ RunFlags
    \/ Link
    \/ assert_
    \/ success
    \/ failure
    \/ Drop
    \/ DropPanics

SpecRun == InitRun /\ [][NextRun]_vars

Artifacts == {input_path, output_path, set_extension(output_path, "obj")}

\* C1: on the Assert run() returns for a snippet that compiles, every
\* assert() / success() / failure() runs the compiled program, so the status
\* checked is the program's: when main returns 1, success() panics and
\* failure() does not.
C1_AssertRunsCompiledProgram ==
    (call.op # "none" /\ Compiles(stripped)) =>
        /\ call.child = "program"
        /\ call.status = ExitCode(stripped)
        /\ (call.op = "success" /\ ExitCode(stripped) = 1) => call.panicked
        /\ (call.op = "failure" /\ ExitCode(stripped) = 1) => ~call.panicked

\* C2: once an Assert has been dropped, none of its artifact paths (staged
\* source, output executable, intermediate object file) exists, whichever
\* calls were made on it before, none included.
C2_DropRemovesArtifacts ==
    dropState = "dropped" => \A f \in Artifacts : f \notin DOMAIN disk

\* the drop that follows a failure() which ran the command and panicked, all
\* three artifacts having been created
C2_Witness ==
    /\ dropState = "dropped"
    /\ Artifacts \subseteq created
    /\ call.op = "failure" /\ call.panicked

\* C3: when run() yields no Assert because the build failed (a required
\* LDFLAGS token missing, no toolchain, a header read error), none of the
\* temporary files the invocation created remains.
C3_NoArtifactsAfterBuildFailure ==
    (pc = "done" /\ outcome.why \in {"toolchain", "header",
                                      "no link path for .dll", "no .dll"})
        => created \cap DOMAIN disk = {}

\* C4: when the LDFLAGS group has fewer than two tokens, run() returns the
\* Err branch of its result; it neither panics nor returns an Assert.
C4_MissingLdflagsIsReturnedError ==
    (pc \in {"done", "returned"} /\ LDFLAGS \in DOMAIN flags
        /\ Len(flags[LDFLAGS]) < 2)
        => outcome.kind = "err"

\* C10: when the host is not MSVC, run() aborts before it has created any
\* file: at the moment of the panic nothing has been created on disk.
C10_UnsupportedHostAbortsBeforeFiles ==
    pc = "abort" => (created = {} /\ DOMAIN disk = {})

----------------------------------------------------------------------------
(* Two concurrent invocations that share an include directory *)

InitConc ==
    /\ fs \in Trees(Headers(NConcHeaders))
    /\ program \in {Plain, Including("a.h") \o Plain}
    /\ stripped = program
    /\ env = <<>>
    /\ variables = IncConfig
    /\ flags = [n \in FlagNames |-> get_env_flags(variables, env, n)]
    /\ xpc = "resolved"
    /\ FixerIdle
    /\ RunUnused

\* line 128 in the invocation on thread t
ConcFixup(t) ==
    /\ fixState[t] = "idle"
    /\ fixup_symlinks(t)
    /\ UNCHANGED <<snap, fixrun, xvars, rvars>>

NextConc ==
    \E t \in Threads :
        \/ ConcFixup(t)
        \/ ReadDir(t)
        \/ ReadHeader(t)
        \/ Probe(t)
        \/ Truncate(t)
        \/ WriteHeader(t)
        \/ Recurse(t)
        \/ Return(t)

SpecConc == InitConc /\ [][NextConc]_vars

\* C8: concurrent invocations do not contend over files: no file one
\* invocation writes is read or written by the other.
C8_NoFileSharedByInvocations ==
    \A t, u \in Threads :
        t # u => wr[t] \cap (rd[u] \cup wr[u]) = {}

----------------------------------------------------------------------------
(* C6 *)

\* the directives of the program text for configuration name k: the indices
\* of the regex's matches whose trimmed name is k
DirectivesFor(k) ==
    LET caps == captures_iter(program)
    IN {i \in 1..Len(caps) : Trim(caps[i].variable_name) = k}

ConfigNames ==
    {Trim(m.variable_name) : m \in {captures_iter(program)[i] :
                                      i \in 1..Len(captures_iter(program))}}
    \cup {Tail(n) : n \in {x \in DOMAIN env : Len(x) >= 1}}
    \cup DOMAIN variables \cup {<<NameA>>, <<NameB>>}

\* C6: in the Configuration Map, a name with a directive in the program text
\* has the last such directive's quoted value, also when the environment
\* defines INLINE_C_RS_<name>; a name only the environment defines has the
\* environment's value; a name neither defines is absent.
C6_DirectivesOverrideEnvironment ==
    xpc = "collected" =>
        \A k \in ConfigNames :
            LET caps == captures_iter(program)
                d == DirectivesFor(k)
                n == <<ENV_VAR_PREFIX>> \o k
            IN IF d # {}
               THEN k \in DOMAIN variables
                    /\ variables[k] = caps[Max(d)].variable_value
               ELSE IF n \in DOMAIN env
               THEN k \in DOMAIN variables /\ variables[k] = env[n]
               ELSE k \notin DOMAIN variables

\* two directives for one name with different values, the environment
\* defining the same name with a third value, and a name from the
\* environment alone
C6_Witness ==
    /\ xpc = "collected"
    /\ \E k \in ConfigNames :
        LET caps == captures_iter(program)
            d == DirectivesFor(k)
        IN /\ Cardinality(d) = 2
           /\ caps[Min(d)].variable_value # caps[Max(d)].variable_value
           /\ <<ENV_VAR_PREFIX>> \o k \in DOMAIN env
           /\ env[<<ENV_VAR_PREFIX>> \o k] # caps[Max(d)].variable_value
           /\ variables[k] = caps[Max(d)].variable_value
    /\ \E k \in ConfigNames :
        /\ DirectivesFor(k) = {}
        /\ <<ENV_VAR_PREFIX>> \o k \in DOMAIN env
        /\ k \in DOMAIN variables

----------------------------------------------------------------------------
(* C5 *)

\* what the flag group of a name is tokenized from, as specified: the map's
\* value, else the ambient variable's, else the empty string
FlagSource(n) ==
    IF n \in DOMAIN variables THEN variables[n]
    ELSE IF n \in DOMAIN env THEN env[n]
    ELSE <<>>

\* C5: each of the four flag groups is the whitespace tokenization of the
\* Configuration Map's value for the name if present, otherwise of the
\* ambient environment variable of that name if set, otherwise empty.
C5_FlagsFallBackToAmbientEnvironment ==
    xpc = "resolved" =>
        \A n \in FlagNames : flags[n] = split_ascii_whitespace(FlagSource(n))

====
